---- MODULE Spec2Model ----
(***************************************************************************)
(* Model of firerust's realtime subscription, RealtimeReference::on_snapshot *)
(* (src/src/lib.rs 290-418) and RealtimeReference::merge_value (421-440).   *)
(*                                                                         *)
(* A serde_json Value is a record [t, n, s, m]: t is the variant, n the     *)
(* number, s the text of a string (a sequence of characters, see Path), m   *)
(* the map of an object.  Every variant carries all four fields so that two *)
(* values of different variants compare unequal.  Arrays do not occur in    *)
(* the trees drawn here.                                                    *)
(*                                                                         *)
(* The stream is modelled block by block: ReadBlock yields what one pass of *)
(* the chunk loop (line 321-335) accumulated, HandleBlock runs the rest of  *)
(* the loop body on it.  The callback returns Ok or Err; a panicking        *)
(* callback, and hence a poisoned mutex (line 317, 367, 390), is not drawn. *)
(***************************************************************************)
EXTENDS Integers, Sequences, FiniteSets, TLC

\* ------------------------------------------------------------------ values

EmptyMap == [k \in {} |-> 0]

JNull == [t |-> "null", n |-> 0, s |-> <<>>, m |-> EmptyMap]

Num(i) == [t |-> "num", n |-> i, s |-> <<>>, m |-> EmptyMap]

Str(text) == [t |-> "str", n |-> 0, s |-> text, m |-> EmptyMap]

Obj(map) == [t |-> "obj", n |-> 0, s |-> <<>>, m |-> map]

is_null(v) == v.t = "null"

is_object(v) == v.t = "obj"

\* Map::remove: the map without key k (unchanged when k is absent).
MapRemove(map, k) == [j \in (DOMAIN map) \ {k} |-> map[j]]

\* The map with key k bound to v (inserted or overwritten).
MapPut(map, k, v) == [j \in (DOMAIN map) \cup {k} |-> IF j = k THEN v ELSE map[j]]

\* Value::get(key): "some" only on an object that has the key.
ValueGet(v, k) ==
    IF is_object(v) /\ k \in DOMAIN v.m
    THEN [some |-> TRUE, value |-> v.m[k]]
    ELSE [some |-> FALSE, value |-> JNull]

\* ------------------------------------------------------------------ paths
\* The text of a path is a sequence of characters; a character is "/" or a
\* whole key ("posts" stands for the five letters of that key).

EmptyPath == <<>>

RootSlash == <<"/">>

\* str::split('/') followed by skip(1), for a text that starts with "/":
\* the reference tokens of a JSON pointer.
RECURSIVE Tokens(_)
Tokens(text) ==
    IF text = <<>> THEN <<>>
    ELSE LET rest == Tail(text) IN
         IF rest = <<>> THEN <<"">>
         ELSE IF rest[1] = "/" THEN <<"">> \o Tokens(rest)
         ELSE <<rest[1]>> \o Tokens(Tail(rest))

\* Value::pointer_mut(path): whether the pointer resolves to a node.
RECURSIVE Walk(_, _)
Walk(v, toks) ==
    IF toks = <<>> THEN TRUE
    ELSE /\ is_object(v)
         /\ toks[1] \in DOMAIN v.m
         /\ Walk(v.m[toks[1]], Tail(toks))

pointer_mut(v, path) ==
    IF path = <<>> THEN TRUE
    ELSE IF path[1] # "/" THEN FALSE
    ELSE Walk(v, Tokens(path))

\* The node the pointer resolves to (only used where pointer_mut holds).
RECURSIVE NodeAtToks(_, _)
NodeAtToks(v, toks) ==
    IF toks = <<>> THEN v ELSE NodeAtToks(v.m[toks[1]], Tail(toks))

NodeAt(v, path) == IF path = <<>> THEN v ELSE NodeAtToks(v, Tokens(path))

\* The tree with the node at the pointer replaced by new: the effect of an
\* assignment through the &mut Value that pointer_mut returned.
RECURSIVE StoreAtToks(_, _, _)
StoreAtToks(v, toks, new) ==
    IF toks = <<>> THEN new
    ELSE Obj(MapPut(v.m, toks[1], StoreAtToks(v.m[toks[1]], Tail(toks), new)))

StoreAt(v, path, new) ==
    IF path = <<>> THEN new ELSE StoreAtToks(v, Tokens(path), new)

\* Mutant of merge_value: a value that is no mapping is not stored over a
\* mapping.
merge_value_keeps_mapping(a, b) == IF is_object(a) THEN a ELSE b

\* ------------------------------------------------------------ merge_value
\* merge_value matches on (a.clone(), b.clone()): in the object/object arm the
\* name a is rebound to the map of the clone, the loop edits that local map,
\* and the arm returns Ok(()) without writing through the &mut Value.
\* merge_value(a, b) is the value of *a when the call returns.
RECURSIVE merge_value(_, _)
RECURSIVE LocalMap(_, _)

\* The local map at the end of the for loop (line 424-430); it is dropped at
\* the return of line 432.
LocalMap(am, bm) ==
    LET removed == {k \in DOMAIN bm : is_null(bm[k])}
        merged  == (DOMAIN bm) \ removed
    IN  [k \in ((DOMAIN am) \ removed) \cup merged |->
            IF k \in merged
            THEN merge_value(IF k \in DOMAIN am THEN am[k] ELSE JNull, bm[k])
            ELSE am[k]]

merge_value(a, b) ==
    IF is_object(a) /\ is_object(b)
    THEN LET local == LocalMap(a.m, b.m) IN a
    ELSE b

\* ------------------------------------------------------------------ blocks
\* A block is what one pass of the chunk loop accumulated.  utf8: the bytes
\* are valid UTF-8; frame: the text is an event frame; event: its kind;
\* json/data: whether the text of its data line is JSON, and the value it
\* decodes to.

EventType == {"Put", "Patch", "KeepAlive", "Cancel", "AuthRevoked"}

Block(utf8, frame, event, json, data) ==
    [utf8 |-> utf8, frame |-> frame, event |-> event, json |-> json, data |-> data]

\* String::from_utf8(data)
from_utf8(b) == b.utf8

\* connector::EventStream::try_from(text): Ok on an event frame.
try_from(b) == b.frame

\* EventStream::event()
event(b) == b.event

\* serde_json::from_str::<Value>(event_stream.data()): Ok on JSON text.
from_str(b) == [ok |-> b.json, value |-> b.data]

\* data["path"].as_str(), then "/" => "" (line 350-356).
PathOf(data) ==
    LET member == ValueGet(data, "path") IN
    IF member.some /\ member.value.t = "str"
    THEN [some |-> TRUE,
          path |-> IF member.value.s = RootSlash THEN EmptyPath ELSE member.value.s]
    ELSE [some |-> FALSE, path |-> EmptyPath]

\* data.get("data") (line 358-361).
DataOf(data) == ValueGet(data, "data")

\* serde_json::from_value::<T>(snap.clone()): the consumer type "Value" takes
\* every tree, the consumer type "Map" (a map or struct type) only objects.
Types == {"Value", "Map"}

from_value(T, v) == T = "Value" \/ is_object(v)

\* ------------------------------------------------------- one loop iteration
\* The outcome of the body of the background loop on one block: the snapshot
\* it leaves, whether it invoked the callback and with which view, and whether
\* the loop goes on ("continue") or the thread ends ("return").

Continue(snap) == [snap |-> snap, called |-> FALSE, view |-> JNull, next |-> "continue"]

Deliver(snap) == [snap |-> snap, called |-> TRUE, view |-> snap, next |-> "continue"]

Return(snap) == [snap |-> snap, called |-> FALSE, view |-> JNull, next |-> "return"]

\* recursive-merge as specified: null members of b delete, the others merge.
RECURSIVE RecursiveMerge(_, _)
RecursiveMerge(a, b) ==
    IF is_object(a) /\ is_object(b)
    THEN LET removed == {k \in DOMAIN b.m : is_null(b.m[k])}
             merged  == (DOMAIN b.m) \ removed
         IN  Obj([k \in ((DOMAIN a.m) \ removed) \cup merged |->
                    IF k \in merged
                    THEN IF k \in DOMAIN a.m THEN RecursiveMerge(a.m[k], b.m[k])
                                             ELSE b.m[k]
                    ELSE a.m[k]])
    ELSE b

\* Mutant of PutArm: a Put merges its value into the node as a Patch is
\* specified to.
PutArmMerges(T, snap, path, value) ==
    IF ~pointer_mut(snap, path) THEN Continue(snap)
    ELSE LET stored == StoreAt(snap, path, RecursiveMerge(NodeAt(snap, path), value)) IN
         IF ~from_value(T, stored) THEN Continue(stored)
         ELSE Deliver(stored)

\* Mutant of PutArm: the callback is invoked although the pointer did not
\* resolve.
PutArmUnchecked(T, snap, path, value) ==
    IF ~pointer_mut(snap, path) THEN Deliver(snap)
    ELSE LET stored == StoreAt(snap, path, value) IN
         IF ~from_value(T, stored) THEN Continue(stored)
         ELSE Deliver(stored)

\* Mutant of PutArm: a snapshot that does not deserialize ends the thread.
PutArmStopsOnMismatch(T, snap, path, value) ==
    IF ~pointer_mut(snap, path) THEN Continue(snap)
    ELSE LET stored == StoreAt(snap, path, value) IN
         IF ~from_value(T, stored) THEN Return(stored)
         ELSE Deliver(stored)

\* EventType::Put arm (line 364-386).
PutArm(T, snap, path, value) ==
    IF ~pointer_mut(snap, path) THEN Continue(snap)
    ELSE LET stored == StoreAt(snap, path, value) IN
         IF ~from_value(T, stored) THEN Continue(stored)
         ELSE Deliver(stored)

\* Mutant of PatchArm: the merge is stored but the callback is never invoked.
PatchArmSilent(T, snap, path, value) ==
    IF ~pointer_mut(snap, path) THEN Continue(snap)
    ELSE Continue(StoreAt(snap, path, merge_value(NodeAt(snap, path), value)))

\* EventType::Patch arm (line 387-412); merge_value always returns Ok.
PatchArm(T, snap, path, value) ==
    IF ~pointer_mut(snap, path) THEN Continue(snap)
    ELSE LET stored == StoreAt(snap, path, merge_value(NodeAt(snap, path), value)) IN
         IF ~from_value(T, stored) THEN Continue(stored)
         ELSE Deliver(stored)

\* Mutant of MatchEvent: KeepAlive ends the thread like Cancel.
MatchEventKeepAliveEnds(T, snap, ev, path, value) ==
    CASE ev = "Put"         -> PutArm(T, snap, path, value)
      [] ev = "Patch"       -> PatchArm(T, snap, path, value)
      [] ev = "Cancel"      -> Return(snap)
      [] ev = "AuthRevoked" -> Return(snap)
      [] ev = "KeepAlive"   -> Return(snap)

\* match event_stream.event() (line 363-416).
MatchEvent(T, snap, ev, path, value) ==
    CASE ev = "Put"         -> PutArm(T, snap, path, value)
      [] ev = "Patch"       -> PatchArm(T, snap, path, value)
      [] ev = "Cancel"      -> Return(snap)
      [] ev = "AuthRevoked" -> Return(snap)
      [] ev = "KeepAlive"   -> Continue(snap)

\* Mutant of HandleFrame: a payload that is not JSON ends the thread.
HandleFrameStrict(T, snap, b) ==
    LET data == from_str(b) IN
    IF ~data.ok THEN Return(snap)
    ELSE LET path  == PathOf(data.value)
             value == DataOf(data.value)
         IN  IF ~path.some THEN Continue(snap)
             ELSE IF ~value.some THEN Continue(snap)
             ELSE MatchEvent(T, snap, event(b), path.path, value.value)

\* Payload extraction (line 345-361), then the dispatch.
HandleFrame(T, snap, b) ==
    LET data == from_str(b) IN
    IF ~data.ok THEN Continue(snap)
    ELSE LET path  == PathOf(data.value)
             value == DataOf(data.value)
         IN  IF ~path.some THEN Continue(snap)
             ELSE IF ~value.some THEN Continue(snap)
             ELSE MatchEvent(T, snap, event(b), path.path, value.value)

\* Block decoding (line 337-343), then the rest of the body.
LoopBody(T, snap, b) ==
    IF ~from_utf8(b) THEN Continue(snap)
    ELSE IF ~try_from(b) THEN Continue(snap)
    ELSE HandleFrame(T, snap, b)

\* ------------------------------------------------------------------ inputs

MaxFrames == 3

StatusOk == 200

One(k, v) == Obj([j \in {k} |-> v])

Two(k1, v1, k2, v2) == Obj([j \in {k1, k2} |-> IF j = k1 THEN v1 ELSE v2])

EmptyObj == Obj(EmptyMap)

\* {"a": 1, "b": {"x": 1}}
SeedAB == Two("a", Num(1), "b", One("x", Num(1)))

\* {"x": null, "y": 2}
DropXAddY == Two("x", JNull, "y", Num(2))

\* {"b": {"x": null, "y": 2}}
PatchB == One("b", DropXAddY)

\* {"msg": "hi"}
Msg == One("msg", Str(<<"hi">>))

Seeds == {EmptyObj, SeedAB, Num(1)}

FrameValues == {PatchB, DropXAddY, Msg, JNull, Num(2)}

\* "", "/", "/b", "/b/x", "/posts/k1", "b"
Paths ==
    { EmptyPath, RootSlash, <<"/", "b">>, <<"/", "b", "/", "x">>,
      <<"/", "posts", "/", "k1">>, <<"b">> }

\* The texts of a data line: [json, data] as in a block.
Text(json, data) == [json |-> json, data |-> data]

Payload(path, value) == Two("path", Str(path), "data", value)

NotJson == Text(FALSE, JNull)

\* data: null, data: {"path": "/"}, data: {"data": 2}, data: {"path": 1, "data": 2}
OddTexts ==
    { Text(TRUE, JNull), Text(TRUE, One("path", Str(RootSlash))),
      Text(TRUE, One("data", Num(2))), Text(TRUE, Two("path", Num(1), "data", Num(2))) }

FullTexts == {Text(TRUE, Payload(p, v)) : p \in Paths, v \in FrameValues}

FirstTexts ==
    {NotJson, Text(TRUE, Num(1)), Text(TRUE, One("path", Str(RootSlash)))}
        \cup {Text(TRUE, Payload(RootSlash, v)) : v \in Seeds}

BadUtf8 == Block(FALSE, FALSE, "KeepAlive", FALSE, JNull)

NoFrame == Block(TRUE, FALSE, "KeepAlive", FALSE, JNull)

\* The block of a read of 0 bytes: the empty text, which is no event frame.
EmptyBlock == NoFrame

FrameOf(ev, text) == Block(TRUE, TRUE, ev, text.json, text.data)

Blocks ==
    {BadUtf8, NoFrame}
        \cup {FrameOf(ev, x) : ev \in {"Put", "Patch"}, x \in {NotJson} \cup OddTexts \cup FullTexts}
        \cup {FrameOf(ev, x) : ev \in {"KeepAlive", "Cancel", "AuthRevoked"},
                               x \in {NotJson, Text(TRUE, JNull),
                                      Text(TRUE, Payload(RootSlash, JNull))}}

\* ------------------------------------------------------------------- state

VARIABLES
    pc,          \* "Idle", "Failed" (on_snapshot returned Err), "Read" and
                 \* "Decode" (the background thread), "Terminated"
    T,           \* the consumer type
    status,      \* the status code event_stream returned (0: none)
    first,       \* the text of the first frame's data line
    snap,        \* the snapshot behind the Arc<Mutex<Value>>
    block,       \* the block last read
    eof,         \* the peer closed the stream
    nread,       \* blocks read from the stream
    firstCalls,  \* callback invocations by on_snapshot itself
    streamCalls, \* callback invocations by the background thread
    lastView,    \* the argument of the latest callback invocation
    lastCb,      \* the result of the latest callback invocation
    lock,        \* the holder of the snapshot's mutex: "none", "caller",
                 \* "worker", "observer"
    writing,     \* an assignment to the snapshot is under way
    sent,        \* the lengths in bytes of the frames the peer has sent
    cur,         \* the index in sent of the frame the reads are in (0: none)
    left,        \* the bytes of frame cur not read yet
    acc,         \* the bytes accumulated in data, as <<frame, bytes>> pairs
    cpc          \* the chunk loop: "loop" or "parse" (the block is complete)

\* The state of the lock-level and of the byte-level specification, which the
\* block-level actions leave alone.
aux == <<lock, writing, sent, cur, left, acc, cpc>>

vars == <<pc, T, status, first, snap, block, eof, nread, firstCalls, streamCalls,
          lastView, lastCb, lock, writing, sent, cur, left, acc, cpc>>

Init ==
    /\ pc = "Idle"
    /\ T \in Types
    /\ status = 0
    /\ first = NotJson
    /\ snap = JNull
    /\ block = EmptyBlock
    /\ eof = FALSE
    /\ nread = 0
    /\ firstCalls = 0
    /\ streamCalls = 0
    /\ lastView = JNull
    /\ lastCb = "none"
    /\ lock = "none"
    /\ writing = FALSE
    /\ sent = <<>>
    /\ cur = 0
    /\ left = 0
    /\ acc = <<>>
    /\ cpc = "loop"

\* Mutant of Subscribe: the status check of line 301 is missing.
SubscribeAnyStatus(conn, code, text, cb) ==
    LET data == from_str(text)
        seed == DataOf(data.value)
        called == conn /\ data.ok /\ seed.some /\ from_value(T, seed.value)
    IN  /\ pc = "Idle"
        /\ status' = IF conn THEN code ELSE 0
        /\ first' = IF conn THEN text ELSE first
        /\ snap' = IF called THEN seed.value ELSE snap
        /\ firstCalls' = IF called THEN firstCalls + 1 ELSE firstCalls
        /\ lastView' = IF called THEN seed.value ELSE lastView
        /\ lastCb' = IF called THEN cb ELSE lastCb
        /\ pc' = IF called /\ cb = "Ok" THEN "Read" ELSE "Failed"
        /\ UNCHANGED <<T, block, eof, nread, streamCalls>>
        /\ UNCHANGED aux

\* Mutant of Subscribe: the thread is spawned without the first callback.
SubscribeNoFirstCall(conn, code, text, cb) ==
    LET data == from_str(text)
        seed == DataOf(data.value)
        seeded == conn /\ code = StatusOk /\ data.ok /\ seed.some
                    /\ from_value(T, seed.value)
    IN  /\ pc = "Idle"
        /\ status' = IF conn THEN code ELSE 0
        /\ first' = IF conn THEN text ELSE first
        /\ snap' = IF seeded THEN seed.value ELSE snap
        /\ pc' = IF seeded THEN "Read" ELSE "Failed"
        /\ UNCHANGED <<T, block, eof, nread, firstCalls, streamCalls, lastView, lastCb>>
        /\ UNCHANGED aux

\* on_snapshot up to the spawn (line 296-320).  conn: event_stream returned
\* Ok; code, text: the status and first frame it returned; cb: the result the
\* callback gives when invoked.
Subscribe(conn, code, text, cb) ==
    LET data == from_str(text)
        seed == DataOf(data.value)
        called == conn /\ code = StatusOk /\ data.ok /\ seed.some
                    /\ from_value(T, seed.value)
    IN  /\ pc = "Idle"
        /\ status' = IF conn THEN code ELSE 0
        /\ first' = IF conn THEN text ELSE first
        /\ snap' = IF called THEN seed.value ELSE snap
        /\ firstCalls' = IF called THEN firstCalls + 1 ELSE firstCalls
        /\ lastView' = IF called THEN seed.value ELSE lastView
        /\ lastCb' = IF called THEN cb ELSE lastCb
        /\ pc' = IF called /\ cb = "Ok" THEN "Read" ELSE "Failed"
        /\ UNCHANGED <<T, block, eof, nread, streamCalls>>
        /\ UNCHANGED aux

on_snapshot ==
    \E conn \in BOOLEAN, code \in {StatusOk, 401}, text \in FirstTexts, cb \in {"Ok", "Err"} :
        Subscribe(conn, code, text, cb)

\* The peer closes the stream: every later read returns 0 bytes.
PeerClose ==
    /\ pc \in {"Read", "Decode"}
    /\ ~eof
    /\ eof' = TRUE
    /\ UNCHANGED <<pc, T, status, first, snap, block, nread, firstCalls, streamCalls,
                   lastView, lastCb>>
    /\ UNCHANGED aux

\* The chunk loop (line 321-335) accumulates one block.
ReadBlock ==
    /\ pc = "Read"
    /\ \/ /\ eof
          /\ block' = EmptyBlock
          /\ nread' = nread
       \/ /\ ~eof
          /\ nread < MaxFrames
          /\ block' \in Blocks
          /\ nread' = nread + 1
    /\ pc' = "Decode"
    /\ UNCHANGED <<T, status, first, snap, eof, firstCalls, streamCalls, lastView, lastCb>>
    /\ UNCHANGED aux

\* Mutant of HandleBlock: a callback that returns Err ends the thread.
HandleBlockStopsOnErr ==
    /\ pc = "Decode"
    /\ LET r == LoopBody(T, snap, block) IN
        /\ snap' = r.snap
        /\ IF r.called
           THEN /\ streamCalls' = streamCalls + 1
                /\ lastView' = r.view
                /\ lastCb' \in {"Ok", "Err"}
           ELSE UNCHANGED <<streamCalls, lastView, lastCb>>
        /\ pc' = IF r.next = "return" \/ (r.called /\ lastCb' = "Err")
                 THEN "Terminated" ELSE "Read"
    /\ UNCHANGED <<T, status, first, block, eof, nread, firstCalls>>
    /\ UNCHANGED aux

\* The rest of the loop body (line 337-416) on the block just read.
HandleBlock ==
    /\ pc = "Decode"
    /\ LET r == LoopBody(T, snap, block) IN
        /\ snap' = r.snap
        /\ pc' = IF r.next = "return" THEN "Terminated" ELSE "Read"
        /\ IF r.called
           THEN /\ streamCalls' = streamCalls + 1
                /\ lastView' = r.view
                /\ lastCb' \in {"Ok", "Err"}
           ELSE UNCHANGED <<streamCalls, lastView, lastCb>>
    /\ UNCHANGED <<T, status, first, block, eof, nread, firstCalls>>
    /\ UNCHANGED aux

Next == on_snapshot \/ PeerClose \/ ReadBlock \/ HandleBlock

Spec == Init /\ [][Next]_vars

\* The background thread is a running thread: it takes its next step.
FairSpec == Spec /\ WF_vars(ReadBlock) /\ WF_vars(HandleBlock)

\* The frame a block carries, as the loop body reads it.
Decodable(b) ==
    /\ from_utf8(b) /\ try_from(b) /\ from_str(b).ok
    /\ PathOf(b.data).some /\ DataOf(b.data).some

FramePath(b) == PathOf(b.data).path

FrameValue(b) == DataOf(b.data).value

\* ------------------------------------------------- the lock-level thread
\* The same program with the steps of on_snapshot and of the Put and Patch
\* arms taken one at a time, the mutex of the snapshot made explicit, and an
\* observer: another holder of the Arc that locks the mutex, looks, unlocks.

LockBlocks ==
    { NoFrame,
      FrameOf("Put", NotJson),
      FrameOf("Put", Text(TRUE, Payload(<<"/", "b">>, Num(2)))),
      FrameOf("Put", Text(TRUE, Payload(RootSlash, Num(2)))),
      FrameOf("Put", Text(TRUE, Payload(<<"/", "posts", "/", "k1">>, Msg))),
      FrameOf("Patch", Text(TRUE, Payload(EmptyPath, PatchB))),
      FrameOf("Patch", Text(TRUE, Payload(<<"/", "b">>, JNull))),
      FrameOf("KeepAlive", Text(TRUE, JNull)),
      FrameOf("Cancel", Text(TRUE, Payload(RootSlash, JNull))) }

\* The tree the arm of event ev stores (line 375, 398).
Stored(ev, tree, path, value) ==
    StoreAt(tree, path,
            IF ev = "Put" THEN value ELSE merge_value(NodeAt(tree, path), value))

\* event_stream(...)?, the status check and the seeding (line 296-310).
FirstOpen(conn, code, text) ==
    LET decoded == from_str(text)
        seed == DataOf(decoded.value)
        seeded == conn /\ code = StatusOk /\ decoded.ok /\ seed.some
    IN  /\ pc = "Idle"
        /\ status' = IF conn THEN code ELSE 0
        /\ first' = IF conn THEN text ELSE first
        /\ snap' = IF seeded THEN seed.value ELSE snap
        /\ pc' = IF seeded THEN "FirstLock" ELSE "Failed"
        /\ UNCHANGED <<T, block, eof, nread, firstCalls, streamCalls, lastView, lastCb>>
        /\ UNCHANGED aux

Open ==
    \E conn \in BOOLEAN, code \in {StatusOk, 401}, text \in FirstTexts :
        FirstOpen(conn, code, text)

\* snap.clone().lock() (line 312).
FirstLock ==
    /\ pc = "FirstLock"
    /\ lock = "none"
    /\ lock' = "caller"
    /\ pc' = "FirstCall"
    /\ UNCHANGED <<T, status, first, snap, block, eof, nread, firstCalls, streamCalls,
                   lastView, lastCb, writing, sent, cur, left, acc, cpc>>

\* from_value and the first callback (line 314-315); an Err returns from
\* on_snapshot, which drops the guard.
FirstCall ==
    /\ pc = "FirstCall"
    /\ IF ~from_value(T, snap)
       THEN /\ pc' = "Failed"
            /\ lock' = "none"
            /\ UNCHANGED <<firstCalls, lastView, lastCb>>
       ELSE /\ firstCalls' = firstCalls + 1
            /\ lastView' = snap
            /\ lastCb' \in {"Ok", "Err"}
            /\ pc' = IF lastCb' = "Ok" THEN "FirstUnlock" ELSE "Failed"
            /\ lock' = IF lastCb' = "Ok" THEN lock ELSE "none"
    /\ UNCHANGED <<T, status, first, snap, block, eof, nread, streamCalls,
                   writing, sent, cur, left, acc, cpc>>

\* The end of the match of line 312-318 drops the guard.
FirstUnlock ==
    /\ pc = "FirstUnlock"
    /\ lock' = "none"
    /\ pc' = "Spawn"
    /\ UNCHANGED <<T, status, first, snap, block, eof, nread, firstCalls, streamCalls,
                   lastView, lastCb, writing, sent, cur, left, acc, cpc>>

\* std::thread::spawn (line 320).
Spawn ==
    /\ pc = "Spawn"
    /\ pc' = "Read"
    /\ UNCHANGED <<T, status, first, snap, block, eof, nread, firstCalls, streamCalls,
                   lastView, lastCb>>
    /\ UNCHANGED aux

\* The chunk loop (line 321-335).
LockedRead ==
    /\ pc = "Read"
    /\ nread < MaxFrames
    /\ block' \in LockBlocks
    /\ nread' = nread + 1
    /\ pc' = "Decode"
    /\ UNCHANGED <<T, status, first, snap, eof, firstCalls, streamCalls, lastView, lastCb>>
    /\ UNCHANGED aux

\* Decoding and the match up to the arm (line 337-363, 413-415).
Decode ==
    /\ pc = "Decode"
    /\ pc' = IF Decodable(block) /\ event(block) \in {"Put", "Patch"} THEN "Arm"
             ELSE IF LoopBody(T, snap, block).next = "return" THEN "Terminated"
             ELSE "Read"
    /\ UNCHANGED <<T, status, first, snap, block, eof, nread, firstCalls, streamCalls,
                   lastView, lastCb>>
    /\ UNCHANGED aux

\* Mutant of ArmLock: the arm goes on without the mutex.
ArmLockSkipped ==
    /\ pc = "Arm"
    /\ pc' = "Lookup"
    /\ UNCHANGED <<T, status, first, snap, block, eof, nread, firstCalls, streamCalls,
                   lastView, lastCb, lock, writing, sent, cur, left, acc, cpc>>

\* snap.lock() (line 365, 388): blocks while another holds the mutex.
ArmLock ==
    /\ pc = "Arm"
    /\ lock = "none"
    /\ lock' = "worker"
    /\ pc' = "Lookup"
    /\ UNCHANGED <<T, status, first, snap, block, eof, nread, firstCalls, streamCalls,
                   lastView, lastCb, writing, sent, cur, left, acc, cpc>>

\* Mutant of ArmLookup: the guard is kept when the pointer does not resolve.
ArmLookupLeaks ==
    /\ pc = "Lookup"
    /\ pc' = IF pointer_mut(snap, FramePath(block)) THEN "Store" ELSE "Read"
    /\ UNCHANGED <<T, status, first, snap, block, eof, nread, firstCalls, streamCalls,
                   lastView, lastCb, lock, writing, sent, cur, left, acc, cpc>>

\* snap.pointer_mut(&path) (line 370-373, 393-396); `continue` drops the guard.
ArmLookup ==
    /\ pc = "Lookup"
    /\ IF pointer_mut(snap, FramePath(block))
       THEN pc' = "Store" /\ lock' = lock
       ELSE pc' = "Read" /\ lock' = "none"
    /\ UNCHANGED <<T, status, first, snap, block, eof, nread, firstCalls, streamCalls,
                   lastView, lastCb, writing, sent, cur, left, acc, cpc>>

\* The assignment through the pointer (line 375, 398 via 435) begins ...
ArmStoreBegin ==
    /\ pc = "Store"
    /\ writing' = TRUE
    /\ pc' = "Storing"
    /\ UNCHANGED <<T, status, first, snap, block, eof, nread, firstCalls, streamCalls,
                   lastView, lastCb, lock, sent, cur, left, acc, cpc>>

\* ... and is complete.
ArmStoreEnd ==
    /\ pc = "Storing"
    /\ snap' = Stored(event(block), snap, FramePath(block), FrameValue(block))
    /\ writing' = FALSE
    /\ pc' = "Deser"
    /\ UNCHANGED <<T, status, first, block, eof, nread, firstCalls, streamCalls,
                   lastView, lastCb, lock, sent, cur, left, acc, cpc>>

\* serde_json::from_value::<T>(snap.clone()) (line 377-380, 403-406).
ArmDeser ==
    /\ pc = "Deser"
    /\ IF from_value(T, snap)
       THEN pc' = "Call" /\ lock' = lock
       ELSE pc' = "Read" /\ lock' = "none"
    /\ UNCHANGED <<T, status, first, snap, block, eof, nread, firstCalls, streamCalls,
                   lastView, lastCb, writing, sent, cur, left, acc, cpc>>

\* callback(data) (line 382-385, 408-411).
ArmCall ==
    /\ pc = "Call"
    /\ streamCalls' = streamCalls + 1
    /\ lastView' = snap
    /\ lastCb' \in {"Ok", "Err"}
    /\ pc' = "Unlock"
    /\ UNCHANGED <<T, status, first, snap, block, eof, nread, firstCalls>>
    /\ UNCHANGED aux

\* The end of the arm (line 386, 412) drops the guard.
ArmUnlock ==
    /\ pc = "Unlock"
    /\ lock' = "none"
    /\ pc' = "Read"
    /\ UNCHANGED <<T, status, first, snap, block, eof, nread, firstCalls, streamCalls,
                   lastView, lastCb, writing, sent, cur, left, acc, cpc>>

\* Another holder of the Arc locks the mutex ...
ObserverLock ==
    /\ pc \notin {"Idle", "Failed"}
    /\ lock = "none"
    /\ lock' = "observer"
    /\ UNCHANGED <<pc, T, status, first, snap, block, eof, nread, firstCalls, streamCalls,
                   lastView, lastCb, writing, sent, cur, left, acc, cpc>>

\* ... and unlocks it.
ObserverUnlock ==
    /\ lock = "observer"
    /\ lock' = "none"
    /\ UNCHANGED <<pc, T, status, first, snap, block, eof, nread, firstCalls, streamCalls,
                   lastView, lastCb, writing, sent, cur, left, acc, cpc>>

LockNext ==
    \/ Open \/ FirstLock \/ FirstCall \/ FirstUnlock \/ Spawn
    \/ LockedRead \/ Decode
    \/ ArmLock \/ ArmLookup \/ ArmStoreBegin \/ ArmStoreEnd \/ ArmDeser \/ ArmCall
    \/ ArmUnlock
    \/ ObserverLock \/ ObserverUnlock

LockSpec == Init /\ [][LockNext]_vars

\* -------------------------------------------------- the chunk loop, by bytes
\* The bytes of the stream, frame by frame.  sent holds the lengths of the
\* frames the peer has written, cur the frame the reader is in (0: none yet),
\* left the bytes of it still unread, acc the Vec `data` as the chunks appended
\* to it, each [f, n]: n bytes of frame f.  A read never returns bytes of two
\* frames at once (the transport hands over one write at a time), and it blocks
\* while nothing is buffered and the peer has not closed.

ChunkSize == 1024

MaxSent == 3

FrameLens == {1, ChunkSize - 1, ChunkSize, ChunkSize + 1, 2 * ChunkSize}

Min(a, b) == IF a < b THEN a ELSE b

RECURSIVE Bytes(_)
Bytes(chunks) ==
    IF chunks = <<>> THEN 0 ELSE Head(chunks).n + Bytes(Tail(chunks))

\* The peer writes one frame.
ChunkSend ==
    /\ ~eof
    /\ Len(sent) < MaxSent
    /\ \E len \in FrameLens : sent' = Append(sent, len)
    /\ UNCHANGED <<pc, T, status, first, snap, block, eof, nread, firstCalls,
                   streamCalls, lastView, lastCb, lock, writing, cur, left, acc, cpc>>

\* The peer closes the stream: every later read returns 0 bytes or Err.
ChunkClose ==
    /\ ~eof
    /\ eof' = TRUE
    /\ UNCHANGED <<pc, T, status, first, snap, block, nread, firstCalls,
                   streamCalls, lastView, lastCb, lock, writing, sent, cur, left, acc, cpc>>

\* One pass of the inner loop: read up to ChunkSize bytes, append them, and
\* leave the loop when fewer than ChunkSize came (or the read failed).
ChunkRead ==
    /\ cpc = "loop"
    /\ left > 0 \/ cur < Len(sent) \/ eof
    /\ LET f   == IF left > 0 THEN cur ELSE cur + 1
           av  == IF left > 0 THEN left
                  ELSE IF cur < Len(sent) THEN sent[cur + 1] ELSE 0
           len == Min(ChunkSize, av)
       IN  /\ acc' = IF len > 0 THEN Append(acc, [f |-> f, n |-> len]) ELSE acc
           /\ cur' = IF len > 0 THEN f ELSE cur
           /\ left' = av - len
           /\ cpc' = IF len < ChunkSize THEN "parse" ELSE "loop"
    /\ UNCHANGED <<pc, T, status, first, snap, block, eof, nread, firstCalls,
                   streamCalls, lastView, lastCb, lock, writing, sent>>

\* The rest of the iteration takes the Vec; the next iteration starts with a
\* new one.
ChunkParse ==
    /\ cpc = "parse"
    /\ acc' = <<>>
    /\ cpc' = "loop"
    /\ UNCHANGED <<pc, T, status, first, snap, block, eof, nread, firstCalls,
                   streamCalls, lastView, lastCb, lock, writing, sent, cur, left>>

ChunkNext == ChunkSend \/ ChunkClose \/ ChunkRead \/ ChunkParse

ChunkSpec == Init /\ [][ChunkNext]_vars

\* ------------------------------------------------------------------ claims

\* A Put or Patch frame whose pointer resolves in the tree v.
Applies(b, v) ==
    /\ Decodable(b) /\ event(b) \in {"Put", "Patch"}
    /\ pointer_mut(v, FramePath(b))

\* The background thread has handled the block in `block`.
Handled == pc \in {"Read", "Terminated"} /\ nread > 0

\* The seed of the snapshot: the "data" member of the first frame.
Seed == DataOf(first.data).value

\* C1: a Patch whose pointer resolves to a mapping and whose value is a mapping
\* leaves at that pointer the recursive merge of the value into the previous
\* node: null members deleted, the other members merged, the rest unchanged.
\* Seed {"a":1,"b":{"x":1}} patched at the root with {"b":{"x":null,"y":2}}
\* becomes {"a":1,"b":{"y":2}}.
C1_PatchMergesMappings ==
    [][ ( /\ HandleBlock
          /\ Applies(block, snap) /\ event(block) = "Patch"
          /\ is_object(NodeAt(snap, FramePath(block)))
          /\ is_object(FrameValue(block)) )
        => snap' = StoreAt(snap, FramePath(block),
                           RecursiveMerge(NodeAt(snap, FramePath(block)), FrameValue(block)))
      ]_vars

\* C2: a Cancel or AuthRevoked frame, whatever JSON its data line carries (the
\* "null" these kinds come with included), ends the background thread, and a
\* terminated thread reads nothing and calls nothing any more.
C2_CancelTerminates ==
    [][ /\ ( /\ HandleBlock
             /\ from_utf8(block) /\ try_from(block) /\ from_str(block).ok
             /\ event(block) \in {"Cancel", "AuthRevoked"} )
           => pc' = "Terminated"
        /\ pc = "Terminated" => UNCHANGED <<pc, snap, nread, streamCalls, lastView>>
      ]_vars

\* C3: once the peer has closed the stream the background thread eventually
\* terminates.
C3_EofTerminates == eof ~> (pc = "Terminated")

\* C4: handling a block invokes the callback exactly once, with the snapshot
\* as it stands after the block, when the block is a Put or Patch that was
\* applied and the resulting snapshot deserializes; otherwise not at all.  No
\* other step invokes a streaming callback.
C4_OneCallbackPerAppliedFrame ==
    [][ IF HandleBlock
        THEN IF Applies(block, snap) /\ from_value(T, snap')
             THEN streamCalls' = streamCalls + 1 /\ lastView' = snap'
             ELSE streamCalls' = streamCalls /\ lastView' = lastView
        ELSE streamCalls' = streamCalls
      ]_vars

C4_Witness ==
    /\ Handled /\ nread = 3 /\ streamCalls = 2
    /\ Applies(block, snap) /\ event(block) = "Patch" /\ lastView = snap

\* The tokens walk through mappings of v up to a key that v does not have.
RECURSIVE MissingSegment(_, _)
MissingSegment(v, toks) ==
    /\ toks # <<>>
    /\ is_object(v)
    /\ \/ toks[1] \notin DOMAIN v.m
       \/ MissingSegment(v.m[toks[1]], Tail(toks))

\* C5: a Put whose pointer names segments missing from the snapshot stores the
\* value at that pointer; from {} a Put at /posts/k1 of {"msg":"hi"} gives
\* {"posts":{"k1":{"msg":"hi"}}}.
C5_PutCreatesPath ==
    [][ ( /\ HandleBlock
          /\ Decodable(block) /\ event(block) = "Put"
          /\ FramePath(block) # EmptyPath /\ FramePath(block)[1] = "/"
          /\ ~is_null(FrameValue(block))
          /\ MissingSegment(snap, Tokens(FramePath(block))) )
        => /\ pointer_mut(snap', FramePath(block))
           /\ NodeAt(snap', FramePath(block)) = FrameValue(block)
           /\ ( snap = EmptyObj /\ FramePath(block) = <<"/", "posts", "/", "k1">>
                  /\ FrameValue(block) = Msg
                => snap' = One("posts", One("k1", Msg)) )
      ]_vars

\* C6: a Put or Patch whose pointer does not resolve is skipped: snapshot
\* unchanged, no callback, and the thread goes on to the next read.
C6_UnresolvedPointerSkipped ==
    [][ ( /\ HandleBlock
          /\ Decodable(block) /\ event(block) \in {"Put", "Patch"}
          /\ ~pointer_mut(snap, FramePath(block)) )
        => /\ snap' = snap
           /\ streamCalls' = streamCalls /\ lastView' = lastView
           /\ pc' = "Read"
      ]_vars

C6_Witness ==
    /\ Handled /\ pc = "Read"
    /\ Decodable(block) /\ event(block) = "Put"
    /\ FramePath(block) = <<"/", "posts", "/", "k1">>
    /\ ~pointer_mut(snap, FramePath(block))
    /\ snap = EmptyObj

\* C7: on_snapshot fails and starts no thread when the status is not 200, the
\* first payload is not JSON, it has no "data" member, the seed does not
\* deserialize, or the first callback returns an error; after a failure nothing
\* is read and no callback is invoked.
C7_SubscribeFails ==
    [][ /\ ( /\ pc = "Idle"
             /\ \/ status' # StatusOk
                \/ ~from_str(first').ok
                \/ ~DataOf(first'.data).some
                \/ ~from_value(T, DataOf(first'.data).value)
                \/ lastCb' = "Err" )
           => pc' = "Failed"
        /\ pc = "Failed" => UNCHANGED <<pc, nread, firstCalls, streamCalls, lastView>>
        /\ pc' = "Failed" => nread' = 0 /\ streamCalls' = 0
      ]_vars

C7_Witness ==
    /\ pc = "Failed" /\ status = StatusOk /\ from_str(first).ok
    /\ DataOf(first.data).some /\ firstCalls = 1 /\ lastCb = "Err"

\* C8: when on_snapshot succeeds, the callback has been invoked exactly once by
\* it, with the seed, before the thread reads, mutates or calls anything; no
\* streaming callback happens without that first one.
C8_FirstCallbackFirst ==
    /\ pc \in {"Read", "Decode", "Terminated"} => firstCalls = 1
    /\ pc \in {"Idle", "Failed"} => nread = 0 /\ streamCalls = 0
    /\ (pc \in {"Read", "Decode"} /\ nread = 0)
         => /\ streamCalls = 0
            /\ snap = Seed /\ lastView = Seed /\ lastCb = "Ok"
    /\ firstCalls <= 1

C8_Witness ==
    /\ pc = "Read" /\ nread = 0 /\ ~eof
    /\ firstCalls = 1 /\ lastView = SeedAB /\ snap = SeedAB

\* C9: a block that is not UTF-8, is no event frame, or whose payload is not
\* JSON changes nothing and invokes nothing, and the thread goes on reading.
C9_MalformedBlockDiscarded ==
    [][ ( /\ HandleBlock
          /\ ~from_utf8(block) \/ ~try_from(block) \/ ~from_str(block).ok )
        => /\ snap' = snap
           /\ streamCalls' = streamCalls /\ lastView' = lastView /\ lastCb' = lastCb
           /\ pc' = "Read"
      ]_vars

C9_Witness ==
    /\ Handled /\ pc = "Read" /\ streamCalls = 1 /\ nread = 2
    /\ from_utf8(block) /\ try_from(block) /\ ~from_str(block).ok
    /\ event(block) = "Put"

\* C10: a KeepAlive frame leaves the snapshot unchanged, invokes no callback,
\* and leaves the thread ready to read the next block.
C10_KeepAliveIgnored ==
    [][ ( /\ HandleBlock
          /\ from_utf8(block) /\ try_from(block) /\ event(block) = "KeepAlive" )
        => /\ snap' = snap
           /\ streamCalls' = streamCalls /\ lastView' = lastView /\ lastCb' = lastCb
           /\ pc' = "Read"
      ]_vars

C10_Witness ==
    /\ Handled /\ pc = "Read"
    /\ block = FrameOf("KeepAlive", Text(TRUE, Payload(RootSlash, JNull)))
    /\ streamCalls = 1


\* C11: a streaming callback that returns an error is discarded: the thread
\* does not end, the mutation of that frame stays in the snapshot (it is the
\* view the callback was given), and the thread goes on to the next read.
C11_CallbackErrorDiscarded ==
    [][ ( /\ HandleBlock
          /\ streamCalls' = streamCalls + 1
          /\ lastCb' = "Err" )
        => /\ pc' = "Read"
           /\ snap' = lastView'
           /\ Applies(block, snap)
           /\ event(block) = "Put" => snap' = StoreAt(snap, FramePath(block), FrameValue(block))
      ]_vars

C11_Witness ==
    /\ Handled /\ pc = "Read" /\ lastCb = "Err" /\ streamCalls = 2
    /\ Applies(block, snap) /\ event(block) = "Put" /\ snap = lastView
    /\ snap # Seed

\* C12: when the snapshot a Put or Patch leaves does not deserialize into the
\* consumer type, no callback is invoked and the thread goes on reading; a
\* later frame that makes the snapshot deserialize again is delivered.
C12_TypeMismatchSkipped ==
    [][ /\ ( HandleBlock /\ Applies(block, snap) /\ ~from_value(T, snap') )
           => /\ streamCalls' = streamCalls /\ lastView' = lastView /\ lastCb' = lastCb
              /\ pc' = "Read"
        /\ ( /\ HandleBlock /\ Applies(block, snap)
             /\ ~from_value(T, snap) /\ from_value(T, snap') )
           => /\ streamCalls' = streamCalls + 1 /\ lastView' = snap'
              /\ pc' = "Read"
      ]_vars

\* A Put of the number 2 at the root has been handled under the consumer type
\* "Map": it is stored, it was not delivered, and the thread is at the read.
C12_Witness ==
    /\ Handled /\ pc = "Read" /\ T = "Map"
    /\ block = FrameOf("Put", Text(TRUE, Payload(RootSlash, Num(2))))
    /\ snap = Num(2) /\ lastView = SeedAB /\ streamCalls = 0

\* C13: when the node at the pointer or the value is not a mapping, a Patch
\* leaves the node equal to the value, and the frame behaves exactly like a
\* Put of the same value at the same pointer.
C13_PatchOfNonMappingReplaces ==
    [][ ( /\ HandleBlock
          /\ Applies(block, snap) /\ event(block) = "Patch"
          /\ \/ ~is_object(NodeAt(snap, FramePath(block)))
             \/ ~is_object(FrameValue(block)) )
        => LET put == PutArm(T, snap, FramePath(block), FrameValue(block)) IN
           /\ NodeAt(snap', FramePath(block)) = FrameValue(block)
           /\ snap' = StoreAt(snap, FramePath(block), FrameValue(block))
           /\ snap' = put.snap
           /\ streamCalls' = streamCalls + (IF put.called THEN 1 ELSE 0)
           /\ put.called => lastView' = put.view
           /\ pc' = "Read"
      ]_vars

\* A Patch of the number 2 over the mapping at /b has been handled.
C13_Witness ==
    /\ Handled /\ pc = "Read"
    /\ block = FrameOf("Patch", Text(TRUE, Payload(<<"/", "b">>, Num(2))))
    /\ snap = Two("a", Num(1), "b", Num(2))
    /\ lastView = snap


\* The path member of the frame's payload as it is on the wire.
WirePath(b) == ValueGet(b.data, "path").value.s

\* C14: a frame whose path is "/" addresses the root: the path is normalized
\* to the empty pointer, a Put replaces the whole snapshot with the value,
\* whatever the snapshot was, and a Patch merges the value into the root.
C14_SlashIsRoot ==
    [][ ( HandleBlock /\ Decodable(block) /\ WirePath(block) = RootSlash )
        => /\ FramePath(block) = EmptyPath
           /\ event(block) = "Put" => snap' = FrameValue(block)
           /\ event(block) = "Patch" => snap' = RecursiveMerge(snap, FrameValue(block))
      ]_vars

\* C15: Put is idempotent: once a Put frame has been handled, handling the same
\* frame again leaves the snapshot as the first application left it.
C15_PutIdempotent ==
    ( Handled /\ pc = "Read" /\ Decodable(block) /\ event(block) = "Put" )
        => LoopBody(T, snap, block).snap = snap

\* The Put of {"b":{"x":null,"y":2}} at the root has been applied twice.
C15_Witness ==
    /\ Handled /\ pc = "Read" /\ nread = 2 /\ streamCalls = 2
    /\ block = FrameOf("Put", Text(TRUE, Payload(EmptyPath, PatchB)))
    /\ Seed = EmptyObj /\ snap = PatchB /\ lastView = PatchB


\* C17: the thread mutates the snapshot, reads it for deserialization and runs
\* the callback only while it holds the mutex, which it takes before the
\* pointer lookup and gives up only where an arm ends (pointer not found,
\* deserialization failure, after the callback); whoever else holds the mutex
\* never sees an assignment under way.
C17_MutationUnderLock ==
    [][ /\ (pc # "Idle" /\ snap' # snap) => (lock = "worker" /\ lock' = "worker")
        /\ writing' => lock' = "worker"
        /\ pc \in {"Lookup", "Store", "Storing", "Deser", "Call", "Unlock"} => lock = "worker"
        /\ streamCalls' # streamCalls => (lock = "worker" /\ lock' = "worker")
        /\ (lock = "worker" /\ lock' # "worker") => pc \in {"Lookup", "Deser", "Unlock"}
        /\ lock' = "observer" => ~writing'
      ]_vars

\* The callback of a stored frame has returned and the thread still holds the
\* mutex.
C17_Witness ==
    /\ pc = "Unlock" /\ lock = "worker" /\ ~writing
    /\ streamCalls = 1 /\ lastView = snap /\ snap # Seed

\* C19: the mutex is not held by the thread while it is at a read, whichever
\* way the previous iteration ended, the caller's lock of the first-frame step
\* is released before the thread starts, and the thread never waits for a
\* mutex that it or the caller holds.
C19_NoLockAcrossRead ==
    /\ pc \in {"Read", "Decode", "Arm", "Terminated"} => lock \notin {"worker", "caller"}
    /\ pc \in {"Spawn", "Lookup", "Store", "Storing", "Deser", "Call", "Unlock"}
         => lock # "caller"
    /\ pc = "Failed" => lock = "none"

\* The thread is back at the read after a frame whose pointer did not resolve.
C19_Witness ==
    /\ pc = "Read" /\ lock = "none" /\ nread = 2 /\ streamCalls = 1
    /\ block = FrameOf("Put", Text(TRUE, Payload(<<"/", "posts", "/", "k1">>, Msg)))
    /\ ~pointer_mut(snap, FramePath(block))


\* C18: whenever the chunk loop hands over a block that is not empty, the
\* block holds all the bytes of one frame and no byte of any other frame,
\* whatever the length of the frame.
C18_OneFramePerBlock ==
    (cpc = "parse" /\ acc # <<>>) =>
        /\ \A i \in DOMAIN acc : acc[i].f = acc[1].f
        /\ Bytes(acc) = sent[acc[1].f]


\* The tree v with the Put or Patch frame b applied as specified: a Put
\* replaces the node at the path, a Patch merges the value into it.
Applied(v, b) ==
    IF event(b) = "Put"
    THEN StoreAt(v, FramePath(b), FrameValue(b))
    ELSE StoreAt(v, FramePath(b), RecursiveMerge(NodeAt(v, FramePath(b)), FrameValue(b)))

\* C20: every Put or Patch frame whose pointer resolves leaves the snapshot as
\* the previous snapshot with the frame applied, whether or not the result
\* deserializes into the consumer type and a callback follows (no rollback),
\* so that the snapshot is always the seed with those frames applied in order;
\* and a delivered view is that snapshot, effects of undelivered frames
\* included.
C20_NoRollback ==
    [][ ( HandleBlock /\ Applies(block, snap) )
        => /\ snap' = Applied(snap, block)
           /\ streamCalls' # streamCalls => lastView' = snap'
      ]_vars

====
